---- MODULE Spec2Model ----
(***************************************************************************)
(* A model of src/app.py: a Flask service with two handlers,               *)
(*   GET  /info      get_video_info   (lines 39-111)                       *)
(*   POST /download  download_video   (lines 113-199)                      *)
(* that delegate to the yt_dlp engine (YoutubeDL.extract_info) and to      *)
(* werkzeug's secure_filename.                                             *)
(*                                                                         *)
(* Python strings that are inspected character by character (file names)   *)
(* are sequences of Unicode code points.  An optional value (dict.get      *)
(* returning None) is a sequence of length 0 or 1: <<>> is None and <<v>>  *)
(* is the value v.                                                         *)
(***************************************************************************)
EXTENDS Integers, Sequences, FiniteSets, TLC

(***************************************************************************)
(* Bounds of the model.                                                    *)
(***************************************************************************)
NumReq == 2         \* concurrent requests of SpecConcurrent
MaxEntries == 2     \* entries of a playlist result
MaxFormats == 2     \* raw format records of one engine result (SpecFormats)
MaxNameLen == 5     \* length of an engine-reported file name (SpecFilename)

(***************************************************************************)
(* Program constants.                                                      *)
(***************************************************************************)
Retries == 3              \* 'retries': 3
InfoSocketTimeout == 10   \* 'socket_timeout': 10
DownloadSocketTimeout == 30

Requests == 1 .. NumReq

(***************************************************************************)
(* Optional values and Python truthiness.                                  *)
(***************************************************************************)
None == << >>
Some(v) == << v >>
\* bool(x) for x an optional string: None and "" are falsy.
Truthy(opt) == opt # None /\ opt[1] # ""

(***************************************************************************)
(* Code points.                                                            *)
(***************************************************************************)
\* the code points the model tells apart
Ch == [NUL |-> 0, LF |-> 10, SPACE |-> 32, MINUS |-> 45, DOT |-> 46, SLASH |-> 47,
       BACKSLASH |-> 92, UNDERSCORE |-> 95, LOWER_A |-> 97, LOWER_B |-> 98,
       FULLWIDTH_SOLIDUS |-> 65295]
NUL == Ch.NUL
LF == Ch.LF
SPACE == Ch.SPACE
MINUS == Ch.MINUS
DOT == Ch.DOT
SLASH == Ch.SLASH
BACKSLASH == Ch.BACKSLASH
UNDERSCORE == Ch.UNDERSCORE
\* U+FF0F, which NFKD-decomposes to "/"
FULLWIDTH_SOLIDUS == Ch.FULLWIDTH_SOLIDUS

RECURSIVE Flatten(_)
Flatten(ss) == IF ss = << >> THEN << >> ELSE Head(ss) \o Flatten(Tail(ss))

\* the largest i in 1..Len(s) with s[i] = c, or 0: str.rfind(c) + 1
RFind(s, c) ==
  LET hits == {i \in 1 .. Len(s) : s[i] = c}
  IN IF hits = {} THEN 0 ELSE CHOOSE i \in hits : \A j \in hits : j <= i

\* s[from-1:] in Python terms: the suffix starting at 1-based index from
Suffix(s, from) == SubSeq(s, from, Len(s))

\* the texts "downloads", ".mp3" and "mp4" as code points
DOWNLOAD_FOLDER == <<100, 111, 119, 110, 108, 111, 97, 100, 115>>
DotMp3 == <<DOT, 109, 112, 51>>
ExtMp4 == <<109, 112, 52>>

ALLOWED_EXTENSIONS == {"mp4", "webm", "mp3", "m4a"}

(***************************************************************************)
(* os.path.basename and os.path.splitext (posixpath).                      *)
(***************************************************************************)
basename(p) == Suffix(p, RFind(p, SLASH) + 1)

\* genericpath._splitext: the extension starts at the last dot of the last
\* component, unless that component has only dots before it.
splitext(p) ==
  LET sepIndex == RFind(p, SLASH)
      dotIndex == RFind(p, DOT)
  IN IF dotIndex > sepIndex
        /\ \E k \in (sepIndex + 1) .. (dotIndex - 1) : p[k] # DOT
     THEN << SubSeq(p, 1, dotIndex - 1), Suffix(p, dotIndex) >>
     ELSE << p, << >> >>

(***************************************************************************)
(* werkzeug.utils.secure_filename, step by step.                           *)
(***************************************************************************)
\* unicodedata.normalize("NFKD", c) for the code points of the model
NFKDChar(c) == IF c = FULLWIDTH_SOLIDUS THEN << SLASH >> ELSE << c >>
NFKD(s) == Flatten([i \in 1 .. Len(s) |-> NFKDChar(s[i])])

\* .encode("ascii", "ignore").decode("ascii")
AsciiIgnore(s) == SelectSeq(s, LAMBDA c : c < 128)

\* filename.replace(os.sep, " "); os.path.altsep is None on POSIX
ReplaceSep(s) == [i \in 1 .. Len(s) |-> IF s[i] = SLASH THEN SPACE ELSE s[i]]

\* str.isspace() on ASCII: \t \n \v \f \r, \x1c..\x1f and space
IsSpace(c) == c \in (9 .. 13) \cup (28 .. 32)

RECURSIVE SplitFrom(_, _, _, _)
SplitFrom(s, i, cur, acc) ==
  IF i > Len(s)
  THEN IF cur = << >> THEN acc ELSE Append(acc, cur)
  ELSE IF IsSpace(s[i])
       THEN SplitFrom(s, i + 1, << >>, IF cur = << >> THEN acc ELSE Append(acc, cur))
       ELSE SplitFrom(s, i + 1, Append(cur, s[i]), acc)

\* str.split() with no argument
Split(s) == SplitFrom(s, 1, << >>, << >>)

RECURSIVE Join(_, _)
Join(words, sep) ==
  IF words = << >> THEN << >>
  ELSE IF Len(words) = 1 THEN words[1]
  ELSE words[1] \o sep \o Join(Tail(words), sep)

\* the complement of _filename_ascii_strip_re = [^A-Za-z0-9_.-]
IsFilenameChar(c) ==
  \/ c \in 65 .. 90
  \/ c \in 97 .. 122
  \/ c \in 48 .. 57
  \/ c \in {UNDERSCORE, DOT, MINUS}

AsciiStrip(s) == SelectSeq(s, IsFilenameChar)

RECURSIVE LStrip(_, _)
LStrip(s, chars) ==
  IF s # << >> /\ Head(s) \in chars THEN LStrip(Tail(s), chars) ELSE s

RECURSIVE RStrip(_, _)
RStrip(s, chars) ==
  IF s # << >> /\ s[Len(s)] \in chars
  THEN RStrip(SubSeq(s, 1, Len(s) - 1), chars) ELSE s

\* str.strip("._")
Strip(s, chars) == RStrip(LStrip(s, chars), chars)

secure_filename(filename) ==
  Strip(AsciiStrip(Join(Split(ReplaceSep(AsciiIgnore(NFKD(filename)))),
                        << UNDERSCORE >>)),
        {DOT, UNDERSCORE})

(***************************************************************************)
(* download_video, lines 172-179: the finalisation of the file name.       *)
(***************************************************************************)
\* lines 175-176
AudioRename(filename, audio_only) ==
  IF audio_only THEN splitext(filename)[1] \o DotMp3 ELSE filename

\* a plausible slip: the base name is returned without being secured
SafeFilenameUnsecured(filename) == basename(filename)

\* line 179
SafeFilename(filename) == secure_filename(basename(filename))

FinalFilename(filename, audio_only) == SafeFilename(AudioRename(filename, audio_only))

(***************************************************************************)
(* get_video_info, lines 85-98: the format filter.                         *)
(***************************************************************************)
\* line 91
Usable(fmt) == Truthy(fmt.ext) /\ Truthy(fmt.url)

KeepFormat(fmt) == Usable(fmt)

\* lines 92-98: the projection of a kept record
PublicFormat(fmt) == [format_id |-> fmt.format_id, ext |-> fmt.ext[1]]

RECURSIVE FilterFormats(_)
FilterFormats(fmts) ==
  IF fmts = << >> THEN << >>
  ELSE IF KeepFormat(Head(fmts))
       THEN << PublicFormat(Head(fmts)) >> \o FilterFormats(Tail(fmts))
       ELSE FilterFormats(Tail(fmts))

\* lines 85-98: 'formats' may be missing from info (None here)
AvailableFormats(formats) ==
  IF formats = None THEN << >> ELSE FilterFormats(formats[1])

(***************************************************************************)
(* The state.  Per request (one Flask worker thread each): its position,   *)
(* the request as received, the options handed to the engine, what the     *)
(* engine will do on its successive invocations for this request (the      *)
(* environment), the file operations the running invocation has yet to do, *)
(* what the engine has reported so far, the engine invocations made,       *)
(* the seconds slept between attempts (the handlers never sleep) and the   *)
(* response.  Shared: the downloads directory and the uuid4 values drawn   *)
(* so far.                                                                 *)
(***************************************************************************)
VARIABLES pc, request, ydl_opts, engine, pending, reported, calls, slept, response,
          fs, uuids, formatsIn, formatsOut, nameIn, nameOut

vars == << pc, request, ydl_opts, engine, pending, reported, calls, slept, response,
           fs, uuids, formatsIn, formatsOut, nameIn, nameOut >>
handlerVars ==
  << pc, request, ydl_opts, engine, pending, reported, calls, slept, response,
     fs, uuids >>
formatVars == << formatsIn, formatsOut >>
nameVars == << nameIn, nameOut >>

(***************************************************************************)
(* What one engine invocation (YoutubeDL.extract_info) can do: raise, or   *)
(* return None, a dict with 'entries' (a playlist) or a single video.      *)
(***************************************************************************)
Titles == {<< Ch.LOWER_A >>, << Ch.LOWER_B >>}

Raise(exc, cause) ==
  [kind |-> "raise", exc |-> exc, cause |-> cause, entries |-> 0,
   title |-> << >>, ext |-> << >>, formats |-> None]
ReturnNone ==
  [kind |-> "none", exc |-> "", cause |-> "", entries |-> 0,
   title |-> << >>, ext |-> << >>, formats |-> None]
Playlist(n) ==
  [kind |-> "playlist", exc |-> "", cause |-> "", entries |-> n,
   title |-> << >>, ext |-> << >>, formats |-> None]
Video(title, ext, formats) ==
  [kind |-> "video", exc |-> "", cause |-> "", entries |-> 0,
   title |-> title, ext |-> ext, formats |-> formats]

RawFormat(id, ext, url) == [format_id |-> id, ext |-> ext, url |-> url]

\* 'formats' of a video result: missing, empty, none usable, some usable
SampleFormats ==
  { None,
    Some(<< >>),
    Some(<< RawFormat(1, Some("mp4"), None), RawFormat(2, None, Some("http://m/2")) >>),
    Some(<< RawFormat(1, Some("mp4"), Some("http://m/1")),
            RawFormat(2, Some("webm"), None),
            RawFormat(3, Some("3gp"), Some("http://m/3")) >>) }

ExcTypes == {"DownloadError", "ExtractorError", "Exception"}
Causes == {"transient", "restricted", "unclassified"}

Transient == Raise("DownloadError", "transient")

Outcomes ==
  {Raise(x, c) : x \in ExcTypes, c \in Causes}
  \cup {ReturnNone}
  \cup {Playlist(n) : n \in 0 .. MaxEntries}
  \cup {Video(t, ExtMp4, f) : t \in Titles, f \in SampleFormats}

\* k transient failures in a row, then the outcome last
Script(k, last) == [i \in 1 .. (k + 1) |-> IF i <= k THEN Transient ELSE last]

Scripts == {Script(k, o) : k \in 0 .. (Retries + 1), o \in Outcomes}

(***************************************************************************)
(* Requests and responses.                                                 *)
(***************************************************************************)
Urls == {None, Some(""), Some("https://example.com/watch?v=abc123")}

\* request.is_json false; a JSON content type whose body does not parse
\* (get_json raises BadRequest); a JSON value that is not an object (a list,
\* a string, a number, null); a JSON object
Bodies == {"not_json", "bad_json", "non_object", "object"}

\* request.json.get('format', ...): the key is missing or names a selector
FormatSelectors == {None, Some("best")}

NoRequest ==
  [endpoint |-> "", body |-> "", url |-> None, audio_only |-> FALSE, format |-> None]

Response(status, error, detail) ==
  [status |-> status, error |-> error, detail |-> detail,
   formats |-> << >>, filename |-> << >>, title |-> << >>]
NoResponse == Response(0, "", FALSE)

NoOpts ==
  [built |-> FALSE, download |-> FALSE, uuid |-> 0, outtmpl |-> << >>,
   socket_timeout |-> 0, retries |-> 0, ignoreerrors |-> FALSE,
   format |-> "", postprocessors |-> {}, user_agent |-> "", skip |-> {}]

(***************************************************************************)
(* get_user_agent, lines 30-37: the agent is picked by the clock's second. *)
(***************************************************************************)
agents == << "Windows Chrome/91", "Macintosh Chrome/91", "Windows Firefox/89" >>
get_user_agent(now) == agents[(now % Len(agents)) + 1]

\* int(datetime.now().timestamp()) at the time of a request
Timestamps == 0 .. (Len(agents) - 1)

\* 'extractor_args': {'youtube': {'skip': [...]}}
SkippedProtocols == {"hls", "dash", "translated_subs"}

(***************************************************************************)
(* uuid.uuid4(): a value no earlier call returned (122 random bits).  Its  *)
(* 36-character text is one digit here.                                    *)
(***************************************************************************)
Uuids == 1 .. NumReq
UuidStr(u) == << 48 + u >>

\* a plausible slip: the template names no uuid
OuttmplWithoutUuid(u) == DOWNLOAD_FOLDER \o << SLASH >>

\* line 132: os.path.join(DOWNLOAD_FOLDER, f'{uuid4()}_%(title)s.%(ext)s'),
\* up to the title placeholder
Outtmpl(u) == DOWNLOAD_FOLDER \o << SLASH >> \o UuidStr(u) \o << UNDERSCORE >>

\* ydl.prepare_filename(info): the template with the title and extension
prepare_filename(opts, title, ext) == opts.outtmpl \o title \o << DOT >> \o ext

\* lines 48-62
InfoOpts(now) ==
  [built |-> TRUE, download |-> FALSE, uuid |-> 0, outtmpl |-> << >>,
   socket_timeout |-> InfoSocketTimeout, retries |-> Retries,
   ignoreerrors |-> TRUE, format |-> "", postprocessors |-> {},
   user_agent |-> get_user_agent(now), skip |-> SkippedProtocols]

\* lines 127-158
DownloadOpts(u, audio_only, format, now) ==
  [built |-> TRUE, download |-> TRUE, uuid |-> u, outtmpl |-> Outtmpl(u),
   socket_timeout |-> DownloadSocketTimeout, retries |-> Retries,
   ignoreerrors |-> FALSE,
   format |-> IF audio_only THEN "bestaudio/best"
              ELSE IF format = None THEN "bestvideo+bestaudio/best" ELSE format[1],
   postprocessors |-> IF audio_only THEN {"FFmpegExtractAudio"} ELSE {},
   user_agent |-> get_user_agent(now), skip |-> SkippedProtocols]

(***************************************************************************)
(* The engine's side effects.  extract_info(url, download=True) blocks     *)
(* while it writes the media file of a video, and of every entry of a      *)
(* playlist one after another, under the output template; for each file    *)
(* FFmpegExtractAudio then writes its .mp3 and deletes the original.  With *)
(* download=False, or when it raises or returns None, it touches no file.  *)
(* The operations happen one at a time while other requests run.           *)
(***************************************************************************)
EntryTitle(i) == IF i % 2 = 1 THEN << Ch.LOWER_A >> ELSE << Ch.LOWER_B >>

WriteOp(path) == [op |-> "write", path |-> path]
RemoveOp(path) == [op |-> "remove", path |-> path]

\* the file operations for one media item
ItemOps(opts, title, ext) ==
  LET f == prepare_filename(opts, title, ext)
      mp3 == splitext(f)[1] \o DotMp3
  IN IF "FFmpegExtractAudio" \in opts.postprocessors /\ mp3 # f
     THEN << WriteOp(f), WriteOp(mp3), RemoveOp(f) >>
     ELSE << WriteOp(f) >>

\* the file operations of one invocation, in order
EngineOps(opts, outcome) ==
  IF ~opts.download THEN << >>
  ELSE IF outcome.kind = "video"
       THEN ItemOps(opts, outcome.title, outcome.ext)
  ELSE IF outcome.kind = "playlist"
       THEN Flatten([i \in 1 .. outcome.entries |->
                       ItemOps(opts, EntryTitle(i), ExtMp4)])
  ELSE << >>

(***************************************************************************)
(* What the handlers answer once the engine has returned or raised.        *)
(***************************************************************************)
\* a plausible slip: the 'entries' test is left out
IsPlaylistNever(outcome) == FALSE

\* lines 72 and 168: 'entries' in info
IsPlaylist(outcome) == outcome.kind = "playlist"

\* lines 66-111
InfoResponse(outcome) ==
  IF outcome.kind = "raise"
  THEN IF outcome.exc = "DownloadError"
       THEN Response(400, "Failed to retrieve video information (DownloadError)", FALSE)
       ELSE IF outcome.exc = "ExtractorError"
       THEN Response(400, "Failed to retrieve video information (ExtractorError)", FALSE)
       ELSE Response(500, "An unexpected error occurred while processing your request", FALSE)
  ELSE IF outcome.kind = "none"
  THEN Response(400, "Failed to extract video information", FALSE)
  ELSE IF IsPlaylist(outcome)
  THEN Response(400, "Playlists are not supported, please provide a single video URL", FALSE)
  ELSE [Response(200, "", FALSE) EXCEPT
          !.title = outcome.title,
          !.formats = AvailableFormats(outcome.formats)]

\* lines 162-199; detail: the message carries str(e), the engine's own text
DownloadResponse(req, opts, outcome) ==
  IF outcome.kind = "raise"
  THEN IF outcome.exc = "DownloadError"
       THEN Response(400, "Download failed: ", TRUE)
       ELSE IF outcome.exc = "ExtractorError"
       THEN Response(400, "URL extraction failed: ", TRUE)
       ELSE Response(500, "An unexpected error occurred: ", TRUE)
  ELSE IF outcome.kind = "none"
  THEN Response(400, "Failed to extract video information", FALSE)
  ELSE IF IsPlaylist(outcome)
  THEN Response(400, "Playlists are not supported, please provide a single video URL", FALSE)
  ELSE [Response(200, "", FALSE) EXCEPT
          !.title = outcome.title,
          !.filename = FinalFilename(prepare_filename(opts, outcome.title, outcome.ext),
                                     req.audio_only)]

(***************************************************************************)
(* The handlers.  A handler runs up to and into the blocking call of the   *)
(* engine (pc = "engine": inside extract_info); the engine then does its   *)
(* file operations one at a time; when it returns or raises, the handler   *)
(* produces the response.  Other requests run in between.                  *)
(***************************************************************************)
\* lines 41-66: up to the call of ydl.extract_info(url, download=False)
InfoReceive(r, url, now, script) ==
  /\ pc[r] = "idle"
  /\ request' = [request EXCEPT ![r] =
                   [endpoint |-> "info", body |-> "none", url |-> url,
                    audio_only |-> FALSE, format |-> None]]
  /\ IF ~Truthy(url)
     THEN /\ response' = [response EXCEPT ![r] = Response(400, "No URL provided", FALSE)]
          /\ pc' = [pc EXCEPT ![r] = "done"]
          /\ UNCHANGED << ydl_opts, engine, pending, calls >>
     ELSE /\ ydl_opts' = [ydl_opts EXCEPT ![r] = InfoOpts(now)]
          /\ engine' = [engine EXCEPT ![r] = script]
          /\ pending' = [pending EXCEPT ![r] = EngineOps(InfoOpts(now), Head(script))]
          /\ calls' = [calls EXCEPT ![r] = @ + 1]
          /\ pc' = [pc EXCEPT ![r] = "engine"]
          /\ UNCHANGED response
  /\ UNCHANGED << reported, slept, fs, uuids, formatVars, nameVars >>

\* one file operation of the engine inside extract_info (lines 66, 162)
EngineStep(r) ==
  /\ pc[r] = "engine"
  /\ pending[r] # << >>
  /\ LET o == Head(pending[r])
         file == [path |-> o.path, writer |-> r]
     IN fs' = IF o.op = "write" THEN fs \cup {file} ELSE fs \ {file}
  /\ pending' = [pending EXCEPT ![r] = Tail(@)]
  /\ UNCHANGED << pc, request, ydl_opts, engine, reported, calls, slept, response,
                  uuids, formatVars, nameVars >>

\* lines 66-111: extract_info returns or raises, then the response
InfoRespond(r) ==
  /\ pc[r] = "engine"
  /\ pending[r] = << >>
  /\ request[r].endpoint = "info"
  /\ LET outcome == Head(engine[r])
     IN /\ engine' = [engine EXCEPT ![r] = Tail(@)]
        /\ reported' = [reported EXCEPT ![r] = Append(@, outcome)]
        /\ response' = [response EXCEPT ![r] = InfoResponse(outcome)]
  /\ pc' = [pc EXCEPT ![r] = "done"]
  /\ UNCHANGED << request, ydl_opts, pending, calls, slept, fs, uuids,
                  formatVars, nameVars >>

\* lines 115-162: up to the call of ydl.extract_info(url, download=True)
DownloadReceive(r, body, url, audio_only, format, now, script) ==
  /\ pc[r] = "idle"
  /\ LET isObject == body = "object"
         req == [endpoint |-> "download", body |-> body,
                 url |-> IF isObject THEN url ELSE None,
                 audio_only |-> isObject /\ audio_only,
                 format |-> IF isObject THEN format ELSE None]
     IN /\ request' = [request EXCEPT ![r] = req]
        /\ IF body = "not_json"
           THEN /\ response' = [response EXCEPT ![r] =
                                  Response(400, "Request must be JSON", FALSE)]
                /\ pc' = [pc EXCEPT ![r] = "done"]
                /\ UNCHANGED << ydl_opts, engine, pending, calls, uuids >>
           ELSE IF body = "bad_json"
           \* request.json raises werkzeug's BadRequest
           THEN /\ response' = [response EXCEPT ![r] = Response(400, "Bad Request", FALSE)]
                /\ pc' = [pc EXCEPT ![r] = "done"]
                /\ UNCHANGED << ydl_opts, engine, pending, calls, uuids >>
           ELSE IF body = "non_object"
           \* request.json.get raises AttributeError outside the try block
           THEN /\ response' = [response EXCEPT ![r] =
                                  Response(500, "Internal Server Error", FALSE)]
                /\ pc' = [pc EXCEPT ![r] = "done"]
                /\ UNCHANGED << ydl_opts, engine, pending, calls, uuids >>
           ELSE IF ~Truthy(url)
           THEN /\ response' = [response EXCEPT ![r] =
                                  Response(400, "No URL provided", FALSE)]
                /\ pc' = [pc EXCEPT ![r] = "done"]
                /\ UNCHANGED << ydl_opts, engine, pending, calls, uuids >>
           ELSE \E u \in Uuids \ uuids :
                  /\ uuids' = uuids \cup {u}
                  /\ ydl_opts' = [ydl_opts EXCEPT ![r] =
                                    DownloadOpts(u, audio_only, format, now)]
                  /\ engine' = [engine EXCEPT ![r] = script]
                  /\ pending' = [pending EXCEPT ![r] =
                                   EngineOps(DownloadOpts(u, audio_only, format, now),
                                             Head(script))]
                  /\ calls' = [calls EXCEPT ![r] = @ + 1]
                  /\ pc' = [pc EXCEPT ![r] = "engine"]
                  /\ UNCHANGED response
  /\ UNCHANGED << reported, slept, fs, formatVars, nameVars >>

\* lines 162-199: extract_info returns or raises, then the response
DownloadRespond(r) ==
  /\ pc[r] = "engine"
  /\ pending[r] = << >>
  /\ request[r].endpoint = "download"
  /\ LET outcome == Head(engine[r])
     IN /\ engine' = [engine EXCEPT ![r] = Tail(@)]
        /\ reported' = [reported EXCEPT ![r] = Append(@, outcome)]
        /\ response' = [response EXCEPT ![r] =
                          DownloadResponse(request[r], ydl_opts[r], outcome)]
  /\ pc' = [pc EXCEPT ![r] = "done"]
  /\ UNCHANGED << request, ydl_opts, pending, calls, slept, fs, uuids,
                  formatVars, nameVars >>

(***************************************************************************)
(* The pure parts on their own: the format filter and the file name        *)
(* finaliser applied to every input within the bounds.                     *)
(***************************************************************************)
ExtValues == {None, Some(""), Some("mp4"), Some("3gp")}
UrlValues == {None, Some(""), Some("http://m")}

FormatLists ==
  UNION { { [i \in 1 .. n |-> RawFormat(i, f[i][1], f[i][2])] :
              f \in [1 .. n -> ExtValues \X UrlValues] } : n \in 0 .. MaxFormats }

FormatInputs == {None} \cup {Some(l) : l \in FormatLists}

NameChars == {NUL, LF, DOT, SLASH, BACKSLASH, UNDERSCORE, Ch.LOWER_A, FULLWIDTH_SOLIDUS}
Names == UNION { [1 .. n -> NameChars] : n \in 0 .. MaxNameLen }

NoName == [filename |-> << >>, audio_only |-> FALSE]

\* lines 85-98 applied to info['formats']
ApplyFilter ==
  /\ formatsOut = None
  /\ formatsOut' = Some(AvailableFormats(formatsIn))
  /\ UNCHANGED << handlerVars, formatsIn, nameVars >>

\* lines 172-179 applied to the engine's file name
Finalize ==
  /\ nameOut = None
  /\ nameOut' = Some(FinalFilename(nameIn.filename, nameIn.audio_only))
  /\ UNCHANGED << handlerVars, formatVars, nameIn >>

(***************************************************************************)
(* Specifications.                                                         *)
(***************************************************************************)
HandlerInit ==
  /\ pc = [r \in Requests |-> "idle"]
  /\ request = [r \in Requests |-> NoRequest]
  /\ ydl_opts = [r \in Requests |-> NoOpts]
  /\ engine = [r \in Requests |-> << >>]
  /\ pending = [r \in Requests |-> << >>]
  /\ reported = [r \in Requests |-> << >>]
  /\ calls = [r \in Requests |-> 0]
  /\ slept = [r \in Requests |-> 0]
  /\ response = [r \in Requests |-> NoResponse]
  /\ fs = {}
  /\ uuids = {}

Init ==
  /\ HandlerInit
  /\ formatsIn = None /\ formatsOut = None
  /\ nameIn = NoName /\ nameOut = None

\* one request, over every input and every behaviour of the engine
First == CHOOSE r \in Requests : \A q \in Requests : r <= q

Next ==
  \/ \E url \in Urls, now \in Timestamps, script \in Scripts :
        InfoReceive(First, url, now, script)
  \/ EngineStep(First)
  \/ InfoRespond(First)
  \/ \E body \in Bodies, url \in Urls, audio_only \in BOOLEAN,
        format \in FormatSelectors, now \in Timestamps, script \in Scripts :
          DownloadReceive(First, body, url, audio_only, format, now, script)
  \/ DownloadRespond(First)

Spec == Init /\ [][Next]_vars

\* concurrent requests: every worker thread runs a handler of its own
TheUrl == Some("https://example.com/watch?v=abc123")
ConcurrentOutcomes ==
  {Video(t, ExtMp4, None) : t \in Titles}
  \cup {Playlist(MaxEntries), Raise("DownloadError", "transient")}

NextConcurrent ==
  \E r \in Requests :
    \/ \E o \in ConcurrentOutcomes : InfoReceive(r, TheUrl, 0, Script(0, o))
    \/ EngineStep(r)
    \/ InfoRespond(r)
    \/ \E audio_only \in BOOLEAN, o \in ConcurrentOutcomes :
          DownloadReceive(r, "object", TheUrl, audio_only, None, 0, Script(0, o))
    \/ DownloadRespond(r)

SpecConcurrent == Init /\ [][NextConcurrent]_vars

InitFormats ==
  /\ HandlerInit
  /\ formatsIn \in FormatInputs /\ formatsOut = None
  /\ nameIn = NoName /\ nameOut = None

SpecFormats == InitFormats /\ [][ApplyFilter]_vars

InitFilename ==
  /\ HandlerInit
  /\ formatsIn = None /\ formatsOut = None
  /\ nameIn \in [filename : Names, audio_only : BOOLEAN] /\ nameOut = None

SpecFilename == InitFilename /\ [][Finalize]_vars

(***************************************************************************)
(* Vocabulary of the properties.                                           *)
(***************************************************************************)
Done(r) == pc[r] = "done"

\* everything the engine does for request r: what it reported and what it
\* would report on further invocations
ScriptOf(r) == reported[r] \o engine[r]

RECURSIVE LeadingTransients(_)
LeadingTransients(s) ==
  IF s # << >> /\ Head(s) = Transient THEN 1 + LeadingTransients(Tail(s)) ELSE 0

ReportedPlaylist(r) == \E i \in 1 .. Len(reported[r]) : reported[r][i].kind = "playlist"

HasUsableFormat(o) ==
  o.formats # None /\ \E i \in 1 .. Len(o.formats[1]) : Usable(o.formats[1][i])

\* a structured single-video result without a usable format
ZeroUsable(o) == o.kind = "video" /\ ~HasUsableFormat(o)

\* a successful engine result: a single video, with a usable format
Succeeds(o) == o.kind = "video" /\ HasUsableFormat(o)

FilesOf(r) == {f \in fs : f.writer = r}

PlaylistMessage == "Playlists are not supported, please provide a single video URL"

\* the specified backoff, min(2^i, 10), summed over attempts 0..k-1
RECURSIVE TotalBackoff(_)
TotalBackoff(k) ==
  IF k = 0 THEN 0
  ELSE TotalBackoff(k - 1) + (IF 2 ^ (k - 1) < 10 THEN 2 ^ (k - 1) ELSE 10)

HasPrefix(s, prefix) ==
  Len(prefix) <= Len(s) /\ SubSeq(s, 1, Len(prefix)) = prefix

IsControl(c) == c < 32 \/ c = 127

(***************************************************************************)
(* C1. A request whose URL is empty or absent (for download also one whose *)
(* body is not JSON) is answered 400 and the engine is not invoked. It     *)
(* does not hold of the code for a download whose JSON body is not an      *)
(* object, which is answered 500.                                          *)
(***************************************************************************)
C1_InvalidRequest400 ==
  \A r \in Requests :
    Done(r) /\ ~Truthy(request[r].url)
      => response[r].status = 400 /\ calls[r] = 0

(***************************************************************************)
(* C2. When the engine reports a playlist, the request ends with status    *)
(* 400 and the playlist message, after exactly one engine invocation and   *)
(* without any sleep.                                                      *)
(***************************************************************************)
C2_PlaylistFatalAfterOneAttempt ==
  \A r \in Requests :
    Done(r) /\ ReportedPlaylist(r)
      => /\ response[r].status = 400
         /\ response[r].error = PlaylistMessage
         /\ calls[r] = 1
         /\ slept[r] = 0

C2_Witness ==
  \E r \in Requests :
    /\ Done(r)
    /\ request[r].endpoint = "download"
    /\ reported[r] = << Playlist(MaxEntries) >>
    /\ response[r].error = PlaylistMessage

(***************************************************************************)
(* C3. When a download request ends with the playlist response, that       *)
(* request has written no file to the downloads directory. It does not     *)
(* hold of the code, since the engine is invoked with download=True and    *)
(* has fetched the entries before the handler sees 'entries'.              *)
(***************************************************************************)
C3_PlaylistWritesNothing ==
  \A r \in Requests :
    Done(r) /\ request[r].endpoint = "download" /\ ReportedPlaylist(r)
      => FilesOf(r) = {}

(***************************************************************************)
(* C4. The formats of the info response are exactly the raw records that   *)
(* have a media locator and a known container extension (one of            *)
(* ALLOWED_EXTENSIONS), in the engine's order. It does not hold of the     *)
(* code, since the filter only asks for a non-empty extension.             *)
(***************************************************************************)
KnownExtension(fmt) == fmt.ext # None /\ fmt.ext[1] \in ALLOWED_EXTENSIONS

RECURSIVE KnownAndLocated(_)
KnownAndLocated(fmts) ==
  IF fmts = << >> THEN << >>
  ELSE IF Truthy(Head(fmts).url) /\ KnownExtension(Head(fmts))
       THEN << PublicFormat(Head(fmts)) >> \o KnownAndLocated(Tail(fmts))
       ELSE KnownAndLocated(Tail(fmts))

C4_FormatsAreKnownAndLocated ==
  formatsOut # None
    => formatsOut[1] = (IF formatsIn = None THEN << >> ELSE KnownAndLocated(formatsIn[1]))

(***************************************************************************)
(* C5. When the first tier is exhausted by Retries + 1 transient failures  *)
(* or returns a video without usable formats, the request makes one        *)
(* further, escalated attempt: an engine invocation beyond those of the    *)
(* first tier. It does not hold of the code, since a handler invokes the   *)
(* engine once and never builds a second set of options.                   *)
(***************************************************************************)
PlainExhausted(r) == LeadingTransients(ScriptOf(r)) >= Retries + 1
PlainZeroUsable(r) == ScriptOf(r) # << >> /\ ZeroUsable(ScriptOf(r)[1])
PlainAttempts(r) == IF PlainZeroUsable(r) THEN 1 ELSE Retries + 1

C5_EscalatesExactlyOnce ==
  \A r \in Requests :
    Done(r) /\ (PlainExhausted(r) \/ PlainZeroUsable(r))
      => calls[r] > PlainAttempts(r)

(***************************************************************************)
(* C6. When every engine result of a request is a single video without     *)
(* usable formats, the request ends with 404 (info) or 400 (download), and *)
(* never with a success carrying an empty formats list. It does not hold   *)
(* of the code, info answers 200 with an empty list and download answers   *)
(* 200.                                                                    *)
(***************************************************************************)
C6_NoUsableFormatsIsAnError ==
  \A r \in Requests :
    /\ Done(r)
    /\ calls[r] >= 1
    /\ \A i \in 1 .. Len(reported[r]) : ZeroUsable(reported[r][i])
    => /\ response[r].status = (IF request[r].endpoint = "info" THEN 404 ELSE 400)
       /\ ~(response[r].status = 200 /\ response[r].formats = << >>)

(***************************************************************************)
(* C7. When the engine fails transiently k <= Retries times in a row and   *)
(* then succeeds, the request ends with status 200 and the time slept is   *)
(* the sum of min(2^i, 10) for i in 0..k-1. It does not hold of the code   *)
(* for k >= 1, the first failure already ends the request.                 *)
(***************************************************************************)
C7_RetriesThenSuccess ==
  \A r \in Requests :
    LET s == ScriptOf(r)
        k == LeadingTransients(s)
    IN Done(r) /\ calls[r] >= 1 /\ k <= Retries /\ Len(s) = k + 1 /\ Succeeds(s[k + 1])
         => /\ response[r].status = 200
            /\ slept[r] = TotalBackoff(k)

(***************************************************************************)
(* C8. The public file name of a download holds no path separator, no      *)
(* control character and no directory component, is no reference to the    *)
(* current or the parent directory, and does not start with a dot,         *)
(* whatever file name the engine reports.                                  *)
(***************************************************************************)
C8_PublicFilenameIsSafe ==
  nameOut # None
    => LET f == nameOut[1]
       IN /\ \A i \in 1 .. Len(f) : f[i] \notin {SLASH, BACKSLASH} /\ ~IsControl(f[i])
          /\ f \notin {<< DOT >>, << DOT, DOT >>}
          /\ f # << >> => f[1] # DOT
          /\ basename(f) = f

C8_Witness ==
  /\ nameOut # None
  /\ nameOut[1] # << >>
  /\ \E i \in 1 .. Len(nameIn.filename) : nameIn.filename[i] = SLASH
  /\ \E i \in 1 .. Len(nameIn.filename) : IsControl(nameIn.filename[i])
  /\ \E i \in 1 .. Len(nameIn.filename) - 1 :
       nameIn.filename[i] = DOT /\ nameIn.filename[i + 1] = DOT

(***************************************************************************)
(* C9. Under every interleaving of concurrent requests, the requests that  *)
(* download hold distinct uuids, every file a request has written lies     *)
(* under the downloads folder with that request's uuid as the prefix of    *)
(* its name, and no path has been written by two requests.                 *)
(***************************************************************************)
C9_NoSharedPath ==
  /\ \A r, q \in Requests :
       r # q /\ ydl_opts[r].download /\ ydl_opts[q].download
         => ydl_opts[r].uuid # ydl_opts[q].uuid
  /\ \A f \in fs :
       HasPrefix(f.path, DOWNLOAD_FOLDER \o << SLASH >>
                           \o UuidStr(ydl_opts[f.writer].uuid) \o << UNDERSCORE >>)
  /\ \A f, g \in fs : f.path = g.path => f.writer = g.writer

C9_Witness ==
  \E r, q \in Requests :
    /\ r # q
    /\ Done(r) /\ Done(q)
    /\ request[r] = request[q]
    /\ request[r].endpoint = "download"
    /\ reported[r] = reported[q]
    /\ reported[r] # << >> /\ reported[r][1].kind = "video"
    /\ FilesOf(r) # {} /\ FilesOf(q) # {}

(***************************************************************************)
(* C10. A transient engine failure that exhausts its retries and an        *)
(* access-restricted failure are answered 502, an unclassified engine      *)
(* error is answered 500 with a message without the engine's detail, and   *)
(* no engine failure is answered 400. It does not hold of the code,        *)
(* DownloadError and ExtractorError are answered 400 and download's 500    *)
(* carries the engine's text.                                              *)
(***************************************************************************)
C10_EngineFailureStatus ==
  \A r \in Requests :
    Done(r) /\ calls[r] >= 1 /\ reported[r][1].kind = "raise"
      => LET o == reported[r][1]
         IN /\ (o.cause = "transient" /\ PlainExhausted(r)) => response[r].status = 502
            /\ o.cause = "restricted" => response[r].status = 502
            /\ o.cause = "unclassified"
                 => response[r].status = 500 /\ ~response[r].detail
            /\ response[r].status # 400

====
